---- MODULE Spec2Model ----
(***************************************************************************)
(* Model of wasmjit-environ/src/module_environ.rs: the ModuleEnvironment   *)
(* listener that cranelift_wasm::translate_module drives, the bundle       *)
(* (ModuleTranslation) it fills in, translate_signature, and the           *)
(* DataInitializer <-> OwnedDataInitializer conversions.                   *)
(*                                                                         *)
(* One translation attempt is ModuleEnvironment::new followed by           *)
(* translate: the decoder calls one listener callback at a time; a         *)
(* callback returning Err makes translate_module return that Err (the `?`  *)
(* at line 82), a panicking callback unwinds out of translate, and when    *)
(* the decoder is done it returns its ModuleTranslationState.  The decoder *)
(* is an external crate: nothing in this file restricts the order or the   *)
(* arguments of the callbacks it issues.                                   *)
(***************************************************************************)
EXTENDS Integers, Sequences, FiniteSets, TLC

VARIABLES
    debug_assertions,     \* build: are debug_assert!s compiled in
    usize_bits,           \* build: the width of usize on the host
    target_config,        \* result.target_config (its pointer type)
    tunables,             \* result.tunables
    signatures,           \* result.module.signatures
    functions,            \* result.module.functions
    imported_funcs,       \* result.module.imported_funcs
    tables,               \* result.module.tables
    memory_plans,         \* result.module.memory_plans
    globals,              \* result.module.globals
    exports,              \* result.module.exports
    table_elements,       \* result.module.table_elements
    function_body_inputs, \* result.function_body_inputs
    data_initializers,    \* result.data_initializers
    translate_state,      \* result.translate_state
    pc,                   \* the attempt: running, failed, returned_ok, returned_err, panicked
    returned,             \* what translate returned to its caller
    failure,              \* the callback that failed or panicked, and its result
    calls,                \* per callback, the arguments it was called with, in call order
    ncalls,               \* callbacks issued so far, over all attempts
    rejected,             \* the failure the last failed attempt before this one ended with
    conv                  \* a DataInitializer on its way through into_owned / into

module_vars == <<signatures, functions, imported_funcs, tables, memory_plans,
                 globals, exports, table_elements>>

result_vars == <<target_config, tunables, signatures, functions, imported_funcs,
                 tables, memory_plans, globals, exports, table_elements,
                 function_body_inputs, data_initializers, translate_state>>

vars == <<debug_assertions, usize_bits, target_config, tunables, signatures, functions,
          imported_funcs, tables, memory_plans, globals, exports, table_elements,
          function_body_inputs, data_initializers, translate_state, pc, returned,
          failure, calls, ncalls, rejected, conv>>

-----------------------------------------------------------------------------
(* Bounds and input sets *)

\* callbacks the decoder issues, over all attempts
MaxCalls == 3

\* longest data span given to into_owned
MaxDataLen == 3

\* SignatureIndex / FuncIndex / TableIndex / MemoryIndex / GlobalIndex values
Indices == {0, 1}

\* import module names, import field names and export names
Modules == {"env"}
Fields == {"add", "mem"}
Names == {"sum", "mem"}

\* value types and pointer types
PointerTypes == {"I32", "I64"}

\* an Option<T>: None is <<>>, Some(x) is <<x>>
None == <<>>
Some(x) == <<x>>

\* AbiParam::new(ty): a normal parameter or return value
AbiParam_new(ty) == [value_type |-> ty, purpose |-> "Normal"]

\* AbiParam::special(ty, purpose)
AbiParam_special(ty, purpose) == [value_type |-> ty, purpose |-> purpose]

\* the ir::Signature values the decoder makes of wasm function types
WasmSignatures ==
    { [params |-> <<>>, returns |-> <<>>],
      [params |-> <<AbiParam_new("I32"), AbiParam_new("I64")>>,
       returns |-> <<AbiParam_new("I32")>>] }

\* table, memory and global descriptors
TableDescs == { [minimum |-> 1, maximum |-> None] }
MemoryDescs == { [minimum |-> 1, maximum |-> None, shared |-> FALSE],
                 [minimum |-> 1, maximum |-> Some(2), shared |-> FALSE] }
GlobalDescs == { [ty |-> "I32", mutability |-> FALSE] }

\* Tunables values
TunablesValues ==
    { [static_memory_bound |-> 2, static_memory_offset_guard_size |-> 8,
       dynamic_memory_offset_guard_size |-> 1] }

\* byte values
Bytes == {0, 255}

\* a &[u8]: the bytes start .. start+len-1 (0-based) of the storage it points into
Slice(buf, start, len) == [buf |-> buf, start |-> start, len |-> len]

\* the bytes a slice views
SliceBytes(s) == SubSeq(s.buf, s.start + 1, s.start + s.len)

\* the wasm binary handed to translate, and the spans of it the decoder hands on
InputBuffer == <<0, 255, 0>>
Spans == { Slice(InputBuffer, 0, 0), Slice(InputBuffer, 1, 2) }

\* element segments and data segments the decoder reports
ElementSegments ==
    { [table_index |-> 0, base |-> None, offset |-> 1, elements |-> <<0>>],
      [table_index |-> 1, base |-> Some(0), offset |-> 0, elements |-> <<1, 0>>] }
DataSegments ==
    { [memory_index |-> 0, base |-> None, offset |-> 0,
       data |-> Slice(InputBuffer, 1, 2)],
      [memory_index |-> 1, base |-> Some(0), offset |-> 1,
       data |-> Slice(InputBuffer, 0, 0)] }

\* widths of usize Rust has targets for
UsizeBits == {16, 32, 64}

\* u32 counts the decoder passes to the reserve callbacks
Counts == {0, 1, 65535, 65536, 65537}

\* ModuleTranslationState values the decoder can return
DecoderStates == {"decoded"}

Ok == [kind |-> "Ok", msg |-> <<>>]
Panic == [kind |-> "Panic", msg |-> <<>>]

-----------------------------------------------------------------------------
(* Pure functions *)

\* Vec::insert(0, x)
InsertFront(x, s) == <<x>> \o s

\* translate_signature with the vmctx argument pushed last instead of inserted first
translate_signature_append(sig, pointer_type) ==
    [sig EXCEPT !.params = Append(@, AbiParam_special(pointer_type, "VMContext"))]

\* translate_signature(sig, pointer_type)
translate_signature(sig, pointer_type) ==
    [sig EXCEPT !.params = InsertFront(AbiParam_special(pointer_type, "VMContext"), @)]

\* TargetFrontendConfig::pointer_type via ModuleEnvironment::pointer_type
pointer_type == target_config

\* wasm_unsupported!(fmt, args...): WasmError::Unsupported(format!(...))
wasm_unsupported(pieces) == [kind |-> "Unsupported", msg |-> pieces]

\* MemoryPlan::for_memory(memory, tunables)
MemoryPlan_for_memory(memory, tun) ==
    IF memory.maximum # None /\ memory.maximum[1] <= tun.static_memory_bound
    THEN [memory |-> memory,
          style |-> <<"Static", tun.static_memory_bound>>,
          offset_guard_size |-> tun.static_memory_offset_guard_size]
    ELSE [memory |-> memory,
          style |-> <<"Dynamic">>,
          offset_guard_size |-> tun.dynamic_memory_offset_guard_size]

\* HashMap::entry(key).or_insert(value): the first value of a key is kept
HashMap_insert_keep_first(map, key, value) ==
    IF \E e \in map : e[1] = key THEN map ELSE map \cup {<<key, value>>}

\* HashMap::insert(key, value) on a map kept as a set of <<key, value>> entries
HashMap_insert(map, key, value) ==
    {e \in map : e[1] # key} \cup {<<key, value>>}

\* usize::try_from(num) for a u32: Some(num) if num fits usize, else None
usize_try_from(num) ==
    IF usize_bits >= 32 \/ num < 65536 THEN Some(num) ELSE None

\* num as usize for a u32: the low usize_bits bits of num
as_usize(num) == IF usize_bits >= 32 THEN num ELSE num % 65536

\* PrimaryMap::push / Vec::push
Push(s, x) == Append(s, x)

\* to_vec copying from the start of the storage instead of the start of the span
to_vec_from_start(s) == [buf |-> [i \in 1..s.len |-> s.buf[i]], len |-> s.len]

\* <[u8]>::to_vec: a new Vec of exactly len cells holding a copy of the viewed bytes
to_vec(s) == [buf |-> [i \in 1..s.len |-> s.buf[s.start + i]], len |-> s.len]

\* &Vec<u8> as &[u8]: the initialised prefix of the Vec's storage
Vec_as_slice(v) == Slice(v.buf, 0, v.len)

\* DataInitializerLocation::clone (derived): a field-by-field copy
DataInitializerLocation_clone(loc) ==
    [memory_index |-> loc.memory_index, base |-> loc.base, offset |-> loc.offset]

\* DataInitializer::into_owned
into_owned(self) == [location |-> self.location, data |-> to_vec(self.data)]

\* <&OwnedDataInitializer as Into<DataInitializer>>::into
into(self) ==
    [location |-> DataInitializerLocation_clone(self.location),
     data |-> Vec_as_slice(self.data)]

-----------------------------------------------------------------------------
(* One translation attempt *)

NoCalls ==
    [declare_signature |-> <<>>, declare_func_import |-> <<>>,
     declare_func_type |-> <<>>, declare_memory |-> <<>>,
     declare_func_export |-> <<>>, declare_table_elements |-> <<>>,
     define_function_body |-> <<>>, declare_data_initialization |-> <<>>,
     translate_module |-> <<>>, finish_imports |-> <<>>]

NoConv == [stage |-> "none", src |-> <<>>, owned |-> <<>>, back |-> <<>>]

\* ModuleTranslationState::new()
ModuleTranslationState_new == "new"

\* ModuleEnvironment::new(target_config, tunables): Module::new() and empty sequences
new(tc, tun) ==
    /\ target_config = tc
    /\ tunables = tun
    /\ signatures = <<>>
    /\ functions = <<>>
    /\ imported_funcs = <<>>
    /\ tables = <<>>
    /\ memory_plans = <<>>
    /\ globals = <<>>
    /\ exports = {}
    /\ table_elements = <<>>
    /\ function_body_inputs = <<>>
    /\ data_initializers = <<>>
    /\ translate_state = ModuleTranslationState_new

Init ==
    /\ debug_assertions \in BOOLEAN
    /\ usize_bits = 64
    /\ \E tc \in PointerTypes, tun \in TunablesValues : new(tc, tun)
    /\ pc = "running"
    /\ returned = None
    /\ failure = None
    /\ calls = NoCalls
    /\ ncalls = 0
    /\ rejected = {}
    /\ conv = NoConv

\* the ModuleTranslation held in self.result
result ==
    [target_config |-> target_config,
     module |-> [signatures |-> signatures, functions |-> functions,
                 imported_funcs |-> imported_funcs, tables |-> tables,
                 memory_plans |-> memory_plans, globals |-> globals,
                 exports |-> exports, table_elements |-> table_elements],
     function_body_inputs |-> function_body_inputs,
     data_initializers |-> data_initializers,
     translate_state |-> translate_state,
     tunables |-> tunables]

\* the decoder is about to call a callback
Calling == pc = "running" /\ ncalls < MaxCalls

\* a callback returned Ok(()) to the decoder, which goes on
ReturnOk ==
    /\ ncalls' = ncalls + 1
    /\ UNCHANGED <<debug_assertions, usize_bits, target_config, tunables, translate_state,
                   pc, returned, failure, rejected, conv>>

\* a callback returned Err(e) to the decoder
ReturnErr(op, names, e) ==
    /\ failure' = Some([op |-> op, names |-> names, result |-> e])
    /\ ncalls' = ncalls + 1
    /\ pc' = "failed"
    /\ UNCHANGED <<debug_assertions, usize_bits, target_config, tunables, translate_state,
                   returned, rejected, conv>>

\* the arguments of this call, kept for the record
Log(op, args) == calls' = [calls EXCEPT ![op] = Append(@, args)]

-----------------------------------------------------------------------------
(* The listener's callbacks *)

\* a callback panicked: the panic unwinds through the decoder and out of translate
Panicked(op, names) ==
    /\ pc' = "panicked"
    /\ failure' = Some([op |-> op, names |-> names, result |-> Panic])
    /\ ncalls' = ncalls + 1
    /\ UNCHANGED <<debug_assertions, usize_bits, target_config, tunables,
                   translate_state, returned, rejected, conv>>

\* seq.reserve_exact(usize::try_from(num).unwrap()): unwrap panics on None; the
\* reservation changes the capacity, which is no part of a sequence's contents
\* (the allocation is taken to succeed, as it is for every push)
reserve(op, num) ==
    /\ Calling
    /\ IF usize_try_from(num) # None THEN ReturnOk ELSE Panicked(op, <<>>)
    /\ UNCHANGED <<signatures, functions, imported_funcs, tables, memory_plans,
                   globals, exports, table_elements, function_body_inputs,
                   data_initializers, calls>>

reserve_signatures(num) == reserve("reserve_signatures", num)
reserve_func_types(num) == reserve("reserve_func_types", num)
\* reserve_tables resizing the sequence instead of reserving room for it
reserve_tables_resizes(num) ==
    /\ Calling
    /\ tables' = IF num = 0 THEN tables
                 ELSE Push(tables, [minimum |-> 0, maximum |-> None])
    /\ ReturnOk
    /\ UNCHANGED <<signatures, functions, imported_funcs, memory_plans, globals,
                   exports, table_elements, function_body_inputs, data_initializers,
                   calls>>

reserve_tables(num) == reserve("reserve_tables", num)
reserve_memories(num) == reserve("reserve_memories", num)
reserve_globals(num) == reserve("reserve_globals", num)

\* exports.reserve(num as usize): the cast cannot fail, and HashMap::reserve(n)
\* changes the capacity only, for every n
reserve_exports(num) ==
    /\ Calling
    /\ LET additional == as_usize(num) IN ReturnOk
    /\ UNCHANGED <<signatures, functions, imported_funcs, tables, memory_plans,
                   globals, exports, table_elements, function_body_inputs,
                   data_initializers, calls>>

reserve_table_elements(num) == reserve("reserve_table_elements", num)
reserve_data_initializers(num) == reserve("reserve_data_initializers", num)

\* declare_signature running the signature through translate_signature twice
declare_signature_twice(sig) ==
    /\ Calling
    /\ signatures' = Push(signatures,
                          translate_signature(translate_signature(sig, pointer_type),
                                              pointer_type))
    /\ Log("declare_signature", sig)
    /\ ReturnOk
    /\ UNCHANGED <<functions, imported_funcs, tables, memory_plans, globals,
                   exports, table_elements, function_body_inputs, data_initializers>>

\* declare_signature with the deduplication its TODO asks for, indices not kept
declare_signature_dedup(sig) ==
    /\ Calling
    /\ signatures' =
          IF \E i \in 1..Len(signatures) :
                signatures[i] = translate_signature(sig, pointer_type)
          THEN signatures
          ELSE Push(signatures, translate_signature(sig, pointer_type))
    /\ Log("declare_signature", sig)
    /\ ReturnOk
    /\ UNCHANGED <<functions, imported_funcs, tables, memory_plans, globals,
                   exports, table_elements, function_body_inputs, data_initializers>>

declare_signature(sig) ==
    /\ Calling
    /\ signatures' = Push(signatures, translate_signature(sig, pointer_type))
    /\ Log("declare_signature", sig)
    /\ ReturnOk
    /\ UNCHANGED <<functions, imported_funcs, tables, memory_plans, globals,
                   exports, table_elements, function_body_inputs, data_initializers>>

\* debug_assert_eq!(functions.len(), imported_funcs.len(), ...): checked in builds
\* with debug assertions only
ImportsFirstAsserted ==
    debug_assertions => Len(functions) = Len(imported_funcs)

declare_func_import(sig_index, module, field) ==
    /\ Calling
    /\ IF ImportsFirstAsserted
       THEN /\ functions' = Push(functions, sig_index)
            /\ imported_funcs' = Push(imported_funcs, <<module, field>>)
            /\ Log("declare_func_import",
                   [sig_index |-> sig_index, module |-> module, field |-> field])
            /\ ReturnOk
       ELSE /\ pc' = "panicked"
            /\ failure' = Some([op |-> "declare_func_import",
                                 names |-> <<module, field>>, result |-> Panic])
            /\ ncalls' = ncalls + 1
            /\ UNCHANGED <<debug_assertions, usize_bits, target_config, tunables, translate_state,
                           returned, rejected, conv, functions, imported_funcs, calls>>
    /\ UNCHANGED <<signatures, tables, memory_plans, globals, exports,
                   table_elements, function_body_inputs, data_initializers>>

\* a callback that rejects: no field of self is written
Reject(op, names, e) ==
    /\ Calling
    /\ ReturnErr(op, names, e)
    /\ UNCHANGED <<signatures, functions, imported_funcs, tables, memory_plans,
                   globals, exports, table_elements, function_body_inputs,
                   data_initializers, calls>>

declare_table_import(table, module, field) ==
    Reject("declare_table_import", <<module, field>>,
           wasm_unsupported(<<"can not import table from ", module, ".", field>>))

\* declare_memory_import planning the memory before it rejects it
declare_memory_import_partial(memory, module, field) ==
    /\ Calling
    /\ memory_plans' = Push(memory_plans, MemoryPlan_for_memory(memory, tunables))
    /\ ReturnErr("declare_memory_import", <<module, field>>,
                 wasm_unsupported(<<"can not import memory from ", module, ".", field>>))
    /\ UNCHANGED <<signatures, functions, imported_funcs, tables, globals,
                   exports, table_elements, function_body_inputs, data_initializers,
                   calls>>

declare_memory_import(memory, module, field) ==
    Reject("declare_memory_import", <<module, field>>,
           wasm_unsupported(<<"can not import memory from ", module, ".", field>>))

declare_global_import(global, module, field) ==
    Reject("declare_global_import", <<module, field>>,
           wasm_unsupported(<<"can not import global from ", module, ".", field>>))

\* Vec::shrink_to_fit changes the capacity, never the contents
\* finish_imports emptying imported_funcs instead of shrinking its capacity
finish_imports_clears ==
    /\ Calling
    /\ imported_funcs' = <<>>
    /\ Log("finish_imports", Len(imported_funcs))
    /\ ReturnOk
    /\ UNCHANGED <<signatures, functions, tables, memory_plans, globals, exports,
                   table_elements, function_body_inputs, data_initializers>>

finish_imports ==
    /\ Calling
    /\ Log("finish_imports", Len(imported_funcs))
    /\ ReturnOk
    /\ UNCHANGED <<signatures, functions, imported_funcs, tables, memory_plans,
                   globals, exports, table_elements, function_body_inputs,
                   data_initializers>>

declare_func_type(sig_index) ==
    /\ Calling
    /\ functions' = Push(functions, sig_index)
    /\ Log("declare_func_type", sig_index)
    /\ ReturnOk
    /\ UNCHANGED <<signatures, imported_funcs, tables, memory_plans, globals,
                   exports, table_elements, function_body_inputs, data_initializers>>

declare_table(table) ==
    /\ Calling
    /\ tables' = Push(tables, table)
    /\ ReturnOk
    /\ UNCHANGED <<signatures, functions, imported_funcs, memory_plans, globals,
                   exports, table_elements, function_body_inputs, data_initializers,
                   calls>>

\* declare_memory planning a memory by its position among the memories
declare_memory_positional(memory) ==
    /\ Calling
    /\ memory_plans' =
          Push(memory_plans,
               MemoryPlan_for_memory([memory EXCEPT !.minimum = @ + Len(memory_plans)],
                                     tunables))
    /\ Log("declare_memory", memory)
    /\ ReturnOk
    /\ UNCHANGED <<signatures, functions, imported_funcs, tables, globals,
                   exports, table_elements, function_body_inputs, data_initializers>>

declare_memory(memory) ==
    /\ Calling
    /\ memory_plans' = Push(memory_plans, MemoryPlan_for_memory(memory, tunables))
    /\ Log("declare_memory", memory)
    /\ ReturnOk
    /\ UNCHANGED <<signatures, functions, imported_funcs, tables, globals,
                   exports, table_elements, function_body_inputs, data_initializers>>

\* declare_global keeping the newest global only
declare_global_overwrites(global) ==
    /\ Calling
    /\ globals' = <<global>>
    /\ ReturnOk
    /\ UNCHANGED <<signatures, functions, imported_funcs, tables, memory_plans,
                   exports, table_elements, function_body_inputs, data_initializers,
                   calls>>

declare_global(global) ==
    /\ Calling
    /\ globals' = Push(globals, global)
    /\ ReturnOk
    /\ UNCHANGED <<signatures, functions, imported_funcs, tables, memory_plans,
                   exports, table_elements, function_body_inputs, data_initializers,
                   calls>>

declare_func_export(func_index, name) ==
    /\ Calling
    /\ exports' = HashMap_insert(exports, name, func_index)
    /\ Log("declare_func_export", [func_index |-> func_index, name |-> name])
    /\ ReturnOk
    /\ UNCHANGED <<signatures, functions, imported_funcs, tables, memory_plans,
                   globals, table_elements, function_body_inputs, data_initializers>>

\* declare_table_export handled like declare_func_export
declare_table_export_inserts(table_index, name) ==
    /\ Calling
    /\ exports' = HashMap_insert(exports, name, table_index)
    /\ ReturnOk
    /\ UNCHANGED <<signatures, functions, imported_funcs, tables, memory_plans,
                   globals, table_elements, function_body_inputs, data_initializers,
                   calls>>

declare_table_export(table_index, name) ==
    Reject("declare_table_export", <<name>>,
           wasm_unsupported(<<"can not export table ", name>>))

declare_memory_export(memory_index, name) ==
    Reject("declare_memory_export", <<name>>,
           wasm_unsupported(<<"can not export memory ", name>>))

declare_global_export(global_index, name) ==
    Reject("declare_global_export", <<name>>,
           wasm_unsupported(<<"can not export global ", name>>))

\* declare_start_func accepting the start function and forgetting it
declare_start_func_ignored(func_index) ==
    /\ Calling
    /\ ReturnOk
    /\ UNCHANGED <<signatures, functions, imported_funcs, tables, memory_plans,
                   globals, exports, table_elements, function_body_inputs,
                   data_initializers, calls>>

declare_start_func(func_index) ==
    Reject("declare_start_func", <<>>,
           wasm_unsupported(<<"can not has start func">>))

\* declare_table_elements with offset stored as the table index
declare_table_elements_swapped(table_index, base, offset, elements) ==
    /\ Calling
    /\ table_elements' = Push(table_elements,
                              [table_index |-> offset, base |-> base,
                               offset |-> table_index, elements |-> elements])
    /\ Log("declare_table_elements",
           [table_index |-> table_index, base |-> base, offset |-> offset,
            elements |-> elements])
    /\ ReturnOk
    /\ UNCHANGED <<signatures, functions, imported_funcs, tables, memory_plans,
                   globals, exports, function_body_inputs, data_initializers>>

declare_table_elements(table_index, base, offset, elements) ==
    /\ Calling
    /\ table_elements' = Push(table_elements,
                              [table_index |-> table_index, base |-> base,
                               offset |-> offset, elements |-> elements])
    /\ Log("declare_table_elements",
           [table_index |-> table_index, base |-> base, offset |-> offset,
            elements |-> elements])
    /\ ReturnOk
    /\ UNCHANGED <<signatures, functions, imported_funcs, tables, memory_plans,
                   globals, exports, function_body_inputs, data_initializers>>

\* define_function_body putting the newest body first
define_function_body_front(body_bytes, body_offset) ==
    /\ Calling
    /\ function_body_inputs' = InsertFront([data |-> body_bytes,
                                            module_offset |-> body_offset],
                                           function_body_inputs)
    /\ Log("define_function_body",
           [body_bytes |-> body_bytes, body_offset |-> body_offset])
    /\ ReturnOk
    /\ UNCHANGED <<signatures, functions, imported_funcs, tables, memory_plans,
                   globals, exports, table_elements, data_initializers>>

define_function_body(body_bytes, body_offset) ==
    /\ Calling
    /\ function_body_inputs' = Push(function_body_inputs,
                                    [data |-> body_bytes, module_offset |-> body_offset])
    /\ Log("define_function_body",
           [body_bytes |-> body_bytes, body_offset |-> body_offset])
    /\ ReturnOk
    /\ UNCHANGED <<signatures, functions, imported_funcs, tables, memory_plans,
                   globals, exports, table_elements, data_initializers>>

\* declare_data_initialization forgetting the base global
declare_data_initialization_no_base(memory_index, base, offset, data) ==
    /\ Calling
    /\ data_initializers' = Push(data_initializers,
                                 [location |-> [memory_index |-> memory_index,
                                                base |-> None, offset |-> offset],
                                  data |-> data])
    /\ Log("declare_data_initialization",
           [memory_index |-> memory_index, base |-> base, offset |-> offset,
            data |-> data])
    /\ ReturnOk
    /\ UNCHANGED <<signatures, functions, imported_funcs, tables, memory_plans,
                   globals, exports, table_elements, function_body_inputs>>

declare_data_initialization(memory_index, base, offset, data) ==
    /\ Calling
    /\ data_initializers' = Push(data_initializers,
                                 [location |-> [memory_index |-> memory_index,
                                                base |-> base, offset |-> offset],
                                  data |-> data])
    /\ Log("declare_data_initialization",
           [memory_index |-> memory_index, base |-> base, offset |-> offset,
            data |-> data])
    /\ ReturnOk
    /\ UNCHANGED <<signatures, functions, imported_funcs, tables, memory_plans,
                   globals, exports, table_elements, function_body_inputs>>

-----------------------------------------------------------------------------
(* translate and its caller *)

\* translate returning the bundle without storing the decoder's state in it
translate_ok_stale(state) ==
    /\ pc = "running"
    /\ returned' = Some([kind |-> "Ok", err |-> None, bundle |-> Some(result)])
    /\ pc' = "returned_ok"
    /\ Log("translate_module", state)
    /\ UNCHANGED <<debug_assertions, usize_bits, target_config, tunables, signatures, functions,
                   imported_funcs, tables, memory_plans, globals, exports,
                   table_elements, function_body_inputs, data_initializers,
                   translate_state, failure, ncalls, rejected, conv>>

\* translate, the decoder having returned Ok(state): the state is stored in the
\* bundle and the bundle is returned
translate_ok(state) ==
    /\ pc = "running"
    /\ translate_state' = state
    /\ returned' = Some([kind |-> "Ok", err |-> None,
                         bundle |-> Some([result EXCEPT !.translate_state = state])])
    /\ pc' = "returned_ok"
    /\ Log("translate_module", state)
    /\ UNCHANGED <<debug_assertions, usize_bits, target_config, tunables, signatures, functions,
                   imported_funcs, tables, memory_plans, globals, exports,
                   table_elements, function_body_inputs, data_initializers,
                   failure, ncalls, rejected, conv>>

\* drop(self): the listener and the bundle it holds are gone; only the build and the
\* configuration the caller passed in remain
Dropped ==
    /\ signatures' = <<>>
    /\ functions' = <<>>
    /\ imported_funcs' = <<>>
    /\ tables' = <<>>
    /\ memory_plans' = <<>>
    /\ globals' = <<>>
    /\ exports' = {}
    /\ table_elements' = <<>>
    /\ function_body_inputs' = <<>>
    /\ data_initializers' = <<>>
    /\ translate_state' = ModuleTranslationState_new
    /\ calls' = NoCalls
    /\ UNCHANGED <<target_config, tunables>>

\* translate, the decoder having returned the Err of a callback: `?` returns it
\* and self, moved into translate, is dropped with everything gathered so far
translate_err ==
    /\ pc = "failed"
    /\ returned' = Some([kind |-> "Err", err |-> Some(failure[1].result),
                         bundle |-> None])
    /\ pc' = "returned_err"
    /\ rejected' = {failure[1]}
    /\ Dropped
    /\ UNCHANGED <<debug_assertions, usize_bits, failure, ncalls, conv>>

\* the caller, its module rejected, makes a new ModuleEnvironment and translates
\* again
retry ==
    /\ pc = "returned_err"
    /\ ncalls < MaxCalls
    /\ \E tc \in PointerTypes, tun \in TunablesValues :
          /\ target_config' = tc
          /\ tunables' = tun
    /\ signatures' = <<>>
    /\ functions' = <<>>
    /\ imported_funcs' = <<>>
    /\ tables' = <<>>
    /\ memory_plans' = <<>>
    /\ globals' = <<>>
    /\ exports' = {}
    /\ table_elements' = <<>>
    /\ function_body_inputs' = <<>>
    /\ data_initializers' = <<>>
    /\ translate_state' = ModuleTranslationState_new
    /\ pc' = "running"
    /\ returned' = None
    /\ failure' = None
    /\ calls' = NoCalls
    /\ UNCHANGED <<debug_assertions, usize_bits, ncalls, rejected, conv>>

Next ==
    \/ \E num \in Counts : reserve_signatures(num)
    \/ \E num \in Counts : reserve_func_types(num)
    \/ \E num \in Counts : reserve_tables(num)
    \/ \E num \in Counts : reserve_memories(num)
    \/ \E num \in Counts : reserve_globals(num)
    \/ \E num \in Counts : reserve_exports(num)
    \/ \E num \in Counts : reserve_table_elements(num)
    \/ \E num \in Counts : reserve_data_initializers(num)
    \/ \E sig \in WasmSignatures : declare_signature(sig)
    \/ \E i \in Indices, m \in Modules, f \in Fields : declare_func_import(i, m, f)
    \/ \E t \in TableDescs, m \in Modules, f \in Fields : declare_table_import(t, m, f)
    \/ \E d \in MemoryDescs, m \in Modules, f \in Fields : declare_memory_import(d, m, f)
    \/ \E g \in GlobalDescs, m \in Modules, f \in Fields : declare_global_import(g, m, f)
    \/ finish_imports
    \/ \E i \in Indices : declare_func_type(i)
    \/ \E t \in TableDescs : declare_table(t)
    \/ \E d \in MemoryDescs : declare_memory(d)
    \/ \E g \in GlobalDescs : declare_global(g)
    \/ \E i \in Indices, n \in Names : declare_func_export(i, n)
    \/ \E i \in Indices, n \in Names : declare_table_export(i, n)
    \/ \E i \in Indices, n \in Names : declare_memory_export(i, n)
    \/ \E i \in Indices, n \in Names : declare_global_export(i, n)
    \/ \E i \in Indices : declare_start_func(i)
    \/ \E e \in ElementSegments :
          declare_table_elements(e.table_index, e.base, e.offset, e.elements)
    \/ \E s \in Spans : define_function_body(s, s.start)
    \/ \E d \in DataSegments :
          declare_data_initialization(d.memory_index, d.base, d.offset, d.data)
    \/ \E st \in DecoderStates : translate_ok(st)
    \/ translate_err
    \/ retry

Spec == Init /\ [][Next]_vars

-----------------------------------------------------------------------------
(* The callbacks that write to the bundle or reserve room in it, on hosts of *)
(* every usize width                                                        *)

InitHosts ==
    /\ debug_assertions \in BOOLEAN
    /\ usize_bits \in UsizeBits
    /\ \E tc \in PointerTypes, tun \in TunablesValues : new(tc, tun)
    /\ pc = "running"
    /\ returned = None
    /\ failure = None
    /\ calls = NoCalls
    /\ ncalls = 0
    /\ rejected = {}
    /\ conv = NoConv

NextHosts ==
    \/ \E num \in Counts : reserve_signatures(num)
    \/ \E num \in Counts : reserve_func_types(num)
    \/ \E num \in Counts : reserve_tables(num)
    \/ \E num \in Counts : reserve_memories(num)
    \/ \E num \in Counts : reserve_globals(num)
    \/ \E num \in Counts : reserve_exports(num)
    \/ \E num \in Counts : reserve_table_elements(num)
    \/ \E num \in Counts : reserve_data_initializers(num)
    \/ \E sig \in WasmSignatures : declare_signature(sig)
    \/ \E i \in Indices, m \in Modules, f \in Fields : declare_func_import(i, m, f)
    \/ finish_imports
    \/ \E i \in Indices : declare_func_type(i)
    \/ \E t \in TableDescs : declare_table(t)
    \/ \E d \in MemoryDescs : declare_memory(d)
    \/ \E g \in GlobalDescs : declare_global(g)
    \/ \E i \in Indices, n \in Names : declare_func_export(i, n)
    \/ \E e \in ElementSegments :
          declare_table_elements(e.table_index, e.base, e.offset, e.elements)
    \/ \E s \in Spans : define_function_body(s, s.start)
    \/ \E d \in DataSegments :
          declare_data_initialization(d.memory_index, d.base, d.offset, d.data)
    \/ \E st \in DecoderStates : translate_ok(st)

SpecHosts == InitHosts /\ [][NextHosts]_vars

-----------------------------------------------------------------------------
(* DataInitializer -> OwnedDataInitializer -> DataInitializer *)

\* the DataInitializer values given to into_owned
DataInitializers ==
    { [location |-> [memory_index |-> m, base |-> b, offset |-> o],
       data |-> Slice(buf, start, len)] :
        m \in Indices, b \in {None, Some(0), Some(1)}, o \in Indices,
        buf \in [1..MaxDataLen -> Bytes],
        start \in 0..MaxDataLen, len \in 0..MaxDataLen }

InitConv ==
    /\ debug_assertions = TRUE
    /\ usize_bits = 64
    /\ \E tc \in PointerTypes, tun \in TunablesValues : new(tc, tun)
    /\ pc = "returned_ok"
    /\ returned = None
    /\ failure = None
    /\ calls = NoCalls
    /\ ncalls = 0
    /\ rejected = {}
    /\ \E d \in DataInitializers :
          /\ d.data.start + d.data.len <= MaxDataLen
          /\ conv = [stage |-> "borrowed", src |-> d, owned |-> <<>>, back |-> <<>>]

\* let owned = initializer.into_owned()
convert_into_owned ==
    /\ conv.stage = "borrowed"
    /\ conv' = [conv EXCEPT !.stage = "owned", !.owned = into_owned(conv.src)]
    /\ UNCHANGED <<debug_assertions, usize_bits, target_config, tunables, signatures, functions,
                   imported_funcs, tables, memory_plans, globals, exports,
                   table_elements, function_body_inputs, data_initializers,
                   translate_state, pc, returned, failure, calls, ncalls, rejected>>

\* let back: DataInitializer = (&owned).into()
convert_into ==
    /\ conv.stage = "owned"
    /\ conv' = [conv EXCEPT !.stage = "reborrowed", !.back = into(conv.owned)]
    /\ UNCHANGED <<debug_assertions, usize_bits, target_config, tunables, signatures, functions,
                   imported_funcs, tables, memory_plans, globals, exports,
                   table_elements, function_body_inputs, data_initializers,
                   translate_state, pc, returned, failure, calls, ncalls, rejected>>

NextConv ==
    \/ convert_into_owned
    \/ convert_into

SpecConv == InitConv /\ [][NextConv]_vars

-----------------------------------------------------------------------------
(* Properties *)

\* the decoder's run has not failed: every callback so far returned Ok(())
Accepted == pc \in {"running", "returned_ok"}

RejectingOps ==
    {"declare_table_import", "declare_memory_import", "declare_global_import",
     "declare_table_export", "declare_memory_export", "declare_global_export",
     "declare_start_func"}

\* the elements of a sequence
Range(s) == {s[i] : i \in 1..Len(s)}

\* C1: after any accepted sequence of callbacks functions holds one entry per
\* declare_func_import and declare_func_type call, the first imported_funcs.len()
\* entries are the imports in call order (signature index and (module, field)),
\* and the k-th local function sits at index imported_funcs.len() + k.
C1_ImportsThenLocals ==
    Accepted =>
        /\ Len(functions) = Len(imported_funcs) + Len(calls.declare_func_type)
        /\ Len(imported_funcs) = Len(calls.declare_func_import)
        /\ \A i \in 1..Len(imported_funcs) :
              /\ functions[i] = calls.declare_func_import[i].sig_index
              /\ imported_funcs[i] = <<calls.declare_func_import[i].module,
                                       calls.declare_func_import[i].field>>
        /\ \A k \in 1..Len(calls.declare_func_type) :
              functions[Len(imported_funcs) + k] = calls.declare_func_type[k]

\* the positions of the VMContext parameters of a signature
VMContextPositions(sig) ==
    {i \in 1..Len(sig.params) : sig.params[i].purpose = "VMContext"}

\* C2: every entry of signatures has exactly one VMContext parameter, the first
\* one, whatever the declared parameter count.
C2_OneContextParamFirst ==
    \A i \in 1..Len(signatures) :
        /\ VMContextPositions(signatures[i]) = {1}
        /\ signatures[i].params[1].value_type = pointer_type
        /\ Len(signatures[i].params) = Len(calls.declare_signature[i].params) + 1

\* C2 happens: a signature declared with no parameter and one declared with two
\* are both stored
C2_Witness ==
    /\ Len(signatures) >= 2
    /\ \E i, j \in 1..Len(signatures) :
          /\ Len(calls.declare_signature[i].params) = 0
          /\ Len(calls.declare_signature[j].params) = 2

\* the failure the decoder stopped at, if any, and that of the last failed attempt
Failures == rejected \cup (IF failure = None THEN {} ELSE {failure[1]})

\* a step of one of the seven rejecting callbacks
RejectingCall ==
    \/ \E t \in TableDescs, m \in Modules, f \in Fields : declare_table_import(t, m, f)
    \/ \E d \in MemoryDescs, m \in Modules, f \in Fields : declare_memory_import(d, m, f)
    \/ \E g \in GlobalDescs, m \in Modules, f \in Fields : declare_global_import(g, m, f)
    \/ \E i \in Indices, n \in Names : declare_table_export(i, n)
    \/ \E i \in Indices, n \in Names : declare_memory_export(i, n)
    \/ \E i \in Indices, n \in Names : declare_global_export(i, n)
    \/ \E i \in Indices : declare_start_func(i)

\* C3: each of the seven rejecting callbacks returns an Unsupported error from
\* every listener state and for every argument; the error names the module and
\* field (or export name) given, and the same rejected input gives the same
\* error whatever the listener held and in whichever attempt.
C3_AlwaysUnsupported ==
    /\ [][RejectingCall =>
            /\ pc' = "failed"
            /\ failure' # None
            /\ failure'[1].op \in RejectingOps
            /\ failure'[1].result.kind = "Unsupported"]_vars
    /\ [](\A r \in Failures :
            r.op \in RejectingOps =>
                /\ r.result.kind = "Unsupported"
                /\ Range(r.names) \subseteq Range(r.result.msg)
                /\ \A q \in Failures :
                      (q.op = r.op /\ q.names = r.names) => q.result = r.result)

\* C3 happens: an input rejected in an earlier attempt is rejected again, this
\* time by a listener that already holds a function
C3_Witness ==
    /\ pc = "failed"
    /\ failure[1].op \in RejectingOps
    /\ \E r \in rejected : r.op = failure[1].op /\ r.names = failure[1].names
    /\ Len(functions) > 0

\* C4: translate returns a bundle only if no callback failed, and then the bundle
\* is the listener's result with the decoder's state in it; once a callback has
\* failed no further callback runs, translate returns that error, and no bundle.
C4_AllOrNothing ==
    /\ [](pc = "returned_ok" =>
            /\ failure = None
            /\ returned = Some([kind |-> "Ok", err |-> None, bundle |-> Some(result)])
            /\ result.translate_state = calls.translate_module[1])
    /\ [](failure # None => (returned = None \/ returned[1].kind = "Err"))
    /\ [](pc = "returned_err" =>
            returned = Some([kind |-> "Err", err |-> Some(failure[1].result),
                             bundle |-> None]))
    /\ [][pc = "failed" => (pc' = "returned_err" /\ ncalls' = ncalls)]_vars
    /\ [][pc = "panicked" => UNCHANGED vars]_vars

\* C4 happens: an attempt whose first callback succeeded and whose second was
\* rejected has returned
C4_Witness ==
    /\ pc = "returned_err"
    /\ ncalls = 2
    /\ Cardinality(rejected) = 1

\* C5: a declare_func_import that comes after a declare_func_type (functions is
\* longer than imported_funcs) panics and appends nothing.
C5_ImportAfterLocalPanics ==
    [][\A i \in Indices, m \in Modules, f \in Fields :
          (declare_func_import(i, m, f) /\ Len(functions) # Len(imported_funcs)) =>
              /\ pc' = "panicked"
              /\ functions' = functions
              /\ imported_funcs' = imported_funcs]_vars

\* C6: exports changes only in a declare_func_export call, every entry of exports
\* is the (name, function index) of some declare_func_export call, and a rejected
\* table, memory or global export leaves exports as it was.
C6_OnlyFuncExports ==
    /\ [](\A e \in exports :
            \E c \in Range(calls.declare_func_export) :
                c.name = e[1] /\ c.func_index = e[2])
    /\ [][(pc = "running" /\ exports' # exports) =>
            \E i \in Indices, n \in Names : declare_func_export(i, n)]_vars
    /\ [][(\/ \E i \in Indices, n \in Names : declare_table_export(i, n)
           \/ \E i \in Indices, n \in Names : declare_memory_export(i, n)
           \/ \E i \in Indices, n \in Names : declare_global_export(i, n)) =>
            exports' = exports]_vars

\* C6 happens: a table export was rejected by a listener holding a function export
C6_Witness ==
    /\ pc = "failed"
    /\ failure[1].op = "declare_table_export"
    /\ exports # {}

\* the index of the last call made with this export name, 0 if there is none
LastExportCall(name) ==
    LET is == {i \in 1..Len(calls.declare_func_export) :
                  calls.declare_func_export[i].name = name}
    IN IF is = {} THEN 0 ELSE CHOOSE i \in is : \A j \in is : j <= i

\* C7: declare_func_export never fails; exports holds, for each name exported so
\* far, exactly one entry, with the function index of the last call for that
\* name, and no entry for any other name.
C7_LastWriterWins ==
    /\ \A n \in Names :
          LET l == LastExportCall(n)
          IN {e \in exports : e[1] = n} =
                IF l = 0 THEN {}
                ELSE {<<n, calls.declare_func_export[l].func_index>>}
    /\ \A e \in exports : e[1] \in Names
    /\ \A r \in Failures : r.op # "declare_func_export"

\* C7 happens: a name exported twice with different function indices, another
\* name exported in between
C7_Witness ==
    /\ Len(calls.declare_func_export) = 3
    /\ calls.declare_func_export[1].name = calls.declare_func_export[3].name
    /\ calls.declare_func_export[1].func_index # calls.declare_func_export[3].func_index
    /\ calls.declare_func_export[2].name # calls.declare_func_export[1].name

\* the FunctionBodyData define_function_body makes of its arguments
BodyOf(c) == [data |-> c.body_bytes, module_offset |-> c.body_offset]

\* C8 as claimed: a returned bundle has one function body per local function.
C8_OneBodyPerLocal ==
    pc = "returned_ok" =>
        /\ Len(function_body_inputs) = Len(functions) - Len(imported_funcs)
        /\ \A k \in 1..Len(function_body_inputs) :
              function_body_inputs[k] = BodyOf(calls.define_function_body[k])

\* C8 amended: a returned bundle has one function body per define_function_body
\* call, in call order, and as many bodies as local functions exactly when the
\* decoder called define_function_body as often as declare_func_type.
C8_OneBodyPerCall ==
    pc = "returned_ok" =>
        LET fbi == returned[1].bundle[1].function_body_inputs
            m == returned[1].bundle[1].module
        IN /\ Len(fbi) = Len(calls.define_function_body)
           /\ \A k \in 1..Len(fbi) : fbi[k] = BodyOf(calls.define_function_body[k])
           /\ (Len(fbi) = Len(m.functions) - Len(m.imported_funcs))
                 <=> (Len(calls.define_function_body) = Len(calls.declare_func_type))

\* C8 amended happens: a bundle is returned with two different bodies and one
\* local function
C8_Witness ==
    /\ pc = "returned_ok"
    /\ Len(function_body_inputs) = 2
    /\ function_body_inputs[1] # function_body_inputs[2]
    /\ Len(functions) - Len(imported_funcs) = 1

\* C9 as claimed: every element segment references a declared table.
C9_ValidTableIndex ==
    Accepted =>
        \A i \in 1..Len(table_elements) : table_elements[i].table_index < Len(tables)

\* C9 amended: table_elements holds, in call order, exactly the descriptors given
\* to declare_table_elements, which never fails, whether or not the table index
\* is below tables.len().
C9_ElementsAsDeclared ==
    /\ Accepted =>
          /\ Len(table_elements) = Len(calls.declare_table_elements)
          /\ \A i \in 1..Len(table_elements) :
                /\ table_elements[i].table_index =
                      calls.declare_table_elements[i].table_index
                /\ table_elements[i].base = calls.declare_table_elements[i].base
                /\ table_elements[i].offset = calls.declare_table_elements[i].offset
                /\ table_elements[i].elements =
                      calls.declare_table_elements[i].elements
    /\ \A r \in Failures : r.op # "declare_table_elements"

\* C9 amended happens: a segment for table 1 is kept while only one table (or
\* none) is declared, next to a segment for table 0
C9_Witness ==
    /\ pc = "running"
    /\ Len(table_elements) = 2
    /\ table_elements[1].table_index = 1
    /\ table_elements[2].table_index = 0
    /\ Len(tables) = 1

\* C10: a DataInitializer turned into an OwnedDataInitializer and back views the
\* same bytes and has the same location, the empty span included.
C10_RoundTrip ==
    /\ conv.stage = "owned" =>
          /\ conv.owned.location = conv.src.location
          /\ SubSeq(conv.owned.data.buf, 1, conv.owned.data.len)
                = SliceBytes(conv.src.data)
    /\ conv.stage = "reborrowed" =>
          /\ SliceBytes(conv.back.data) = SliceBytes(conv.src.data)
          /\ conv.back.data.len = conv.src.data.len
          /\ conv.back.location.memory_index = conv.src.location.memory_index
          /\ conv.back.location.base = conv.src.location.base
          /\ conv.back.location.offset = conv.src.location.offset

\* C10 happens: a round trip of a span that starts inside its buffer and holds
\* two different bytes, at a location with a base global
C10_Witness ==
    /\ conv.stage = "reborrowed"
    /\ conv.src.data.start = 1
    /\ SliceBytes(conv.src.data) = <<255, 0>>
    /\ conv.src.location.base = Some(1)

\* C11: memory_plans holds one plan per declare_memory call, in call order; each
\* is the plan of the declared descriptor under the Tunables of this attempt,
\* which no callback changes, so equal descriptors have equal plans wherever
\* they were declared.
C11_PlansAsDeclared ==
    /\ tunables \in TunablesValues
    /\ Accepted =>
          /\ Len(memory_plans) = Len(calls.declare_memory)
          /\ \A i \in 1..Len(memory_plans) :
                /\ memory_plans[i].memory = calls.declare_memory[i]
                /\ memory_plans[i] =
                      MemoryPlan_for_memory(calls.declare_memory[i], tunables)
                /\ \A j \in 1..Len(memory_plans) :
                      calls.declare_memory[i] = calls.declare_memory[j]
                          => memory_plans[i] = memory_plans[j]

\* C11 happens: the same memory declared first and third, another one in between
C11_Witness ==
    /\ pc = "running"
    /\ Len(memory_plans) = 3
    /\ memory_plans[1] = memory_plans[3]
    /\ memory_plans[1] # memory_plans[2]

\* a step of one of the eight reserve callbacks
ReserveCall ==
    \E num \in Counts :
        \/ reserve_signatures(num)
        \/ reserve_func_types(num)
        \/ reserve_tables(num)
        \/ reserve_memories(num)
        \/ reserve_globals(num)
        \/ reserve_exports(num)
        \/ reserve_table_elements(num)
        \/ reserve_data_initializers(num)

\* C12: a reserve callback, whatever its count and outcome, leaves the contents
\* and the length of every sequence, and exports, as they were.
C12_ReserveKeepsContents ==
    [][ReserveCall =>
          UNCHANGED <<signatures, functions, imported_funcs, tables, memory_plans,
                      globals, exports, table_elements, function_body_inputs,
                      data_initializers>>]_vars

\* C12 happens: three callbacks returned Ok, two of them declare_table and the
\* third one that stores and records nothing, which only a reserve callback is
C12_Witness ==
    /\ pc = "running"
    /\ ncalls = 3
    /\ Len(tables) = 2
    /\ globals = <<>>
    /\ calls = NoCalls

\* a u32 count has a usize of the same value
Representable(num) == usize_bits >= 32 \/ num < 65536

\* C13: each of the eight reserve callbacks panics when its count is not
\* representable and returns Ok(()) when it is.
C13_ReserveFatalIffUnrepresentable ==
    [][\A num \in Counts :
          (\/ reserve_signatures(num)
           \/ reserve_func_types(num)
           \/ reserve_tables(num)
           \/ reserve_memories(num)
           \/ reserve_globals(num)
           \/ reserve_exports(num)
           \/ reserve_table_elements(num)
           \/ reserve_data_initializers(num)) =>
              IF Representable(num)
              THEN pc' = "running" /\ failure' = None
              ELSE pc' = "panicked" /\ failure'[1].result = Panic]_vars

\* C14: declare_data_initialization never fails; data_initializers holds, in
\* call order, one initializer per call, with the memory index, base, offset
\* and span of the call, whatever memories are declared.
C14_DataAsDeclared ==
    /\ \A r \in Failures : r.op # "declare_data_initialization"
    /\ Accepted =>
          /\ Len(data_initializers) = Len(calls.declare_data_initialization)
          /\ \A i \in 1..Len(data_initializers) :
                LET c == calls.declare_data_initialization[i]
                    d == data_initializers[i]
                IN /\ d.location.memory_index = c.memory_index
                   /\ d.location.base = c.base
                   /\ d.location.offset = c.offset
                   /\ d.data = c.data

\* C14 happens: with no memory declared, an initializer for memory 0 is kept
\* before one for memory 1 with a base global
C14_Witness ==
    /\ pc = "running"
    /\ memory_plans = <<>>
    /\ Len(data_initializers) = 2
    /\ data_initializers[1].location.memory_index = 0
    /\ data_initializers[2].location.memory_index = 1
    /\ data_initializers[2].location.base = Some(0)

\* C15: a stored signature has the declared parameters, in their order, at
\* positions 1..n after one added parameter, and the declared return types.
C15_ParamsShiftedByOne ==
    \A i \in 1..Len(signatures) :
        LET d == calls.declare_signature[i]
            t == signatures[i]
        IN /\ Len(t.params) = Len(d.params) + 1
           /\ \A k \in 1..Len(d.params) : t.params[k + 1] = d.params[k]
           /\ t.returns = d.returns
           /\ Cardinality(VMContextPositions(t)) = 1

\* C15 happens: a signature declared as (i32, i64) -> i32 is stored
C15_Witness ==
    \E i \in 1..Len(signatures) :
        /\ Len(signatures[i].params) = 3
        /\ signatures[i].params[3].value_type = "I64"
        /\ signatures[i].returns = <<AbiParam_new("I32")>>

\* C16: the i-th declare_signature call stores its signature at index i, equal
\* signatures each get an entry, and an entry stays as it was appended.
C16_SignatureIndexIsCallOrder ==
    /\ [](/\ Len(signatures) = Len(calls.declare_signature)
          /\ \A i \in 1..Len(signatures) :
                signatures[i] =
                    [params |-> <<AbiParam_special(pointer_type, "VMContext")>>
                                    \o calls.declare_signature[i].params,
                     returns |-> calls.declare_signature[i].returns])
    /\ [][pc = "running" =>
            /\ Len(signatures') >= Len(signatures)
            /\ \A i \in 1..Len(signatures) : signatures'[i] = signatures[i]]_vars

\* C16 happens: the same signature declared twice has two entries, after a
\* different one
C16_Witness ==
    /\ Len(signatures) = 3
    /\ signatures[2] = signatures[3]
    /\ signatures[1] # signatures[2]

\* C17: finish_imports returns Ok(()) and leaves every part of the bundle as it
\* was; a declare_func_import after it is taken as before it.
C17_FinishImportsNoEffect ==
    /\ [][finish_imports =>
            /\ pc' = "running"
            /\ failure' = None
            /\ UNCHANGED <<target_config, tunables, signatures, functions,
                           imported_funcs, tables, memory_plans, globals, exports,
                           table_elements, function_body_inputs, data_initializers,
                           translate_state>>]_vars
    /\ [][\A i \in Indices, m \in Modules, f \in Fields :
            (/\ declare_func_import(i, m, f)
             /\ Len(calls.finish_imports) > 0
             /\ Len(functions) = Len(imported_funcs)) =>
                /\ pc' = "running"
                /\ imported_funcs' = Append(imported_funcs, <<m, f>>)]_vars

\* C17 happens: in a build with debug assertions, finish_imports ran between two
\* imports, and both imports are kept
C17_Witness ==
    /\ debug_assertions
    /\ pc = "running"
    /\ calls.finish_imports = <<1>>
    /\ Len(imported_funcs) = 2
    /\ Len(functions) = 2

\* C18: a rejecting callback leaves the module, function_body_inputs,
\* data_initializers, tunables and the rest of the bundle as they were.
C18_RejectKeepsState ==
    [][RejectingCall =>
          UNCHANGED <<target_config, tunables, signatures, functions,
                      imported_funcs, tables, memory_plans, globals, exports,
                      table_elements, function_body_inputs, data_initializers,
                      translate_state>>]_vars

\* C18 happens: a memory import was rejected by a listener that holds a memory
\* plan and a data initializer
C18_Witness ==
    /\ pc = "failed"
    /\ failure[1].op = "declare_memory_import"
    /\ Len(memory_plans) = 1
    /\ Len(data_initializers) = 1

\* s is a prefix of t
IsPrefix(s, t) == Len(s) <= Len(t) /\ SubSeq(t, 1, Len(s)) = s

\* the nine sequences of the bundle
Sequences9 ==
    <<signatures, functions, imported_funcs, tables, memory_plans, globals,
      table_elements, function_body_inputs, data_initializers>>

\* the sequences of Sequences9 that a callback returning Ok(()) appends to
OwnSequences ==
    IF \E sig \in WasmSignatures : declare_signature(sig) THEN {1}
    ELSE IF \E i \in Indices, m \in Modules, f \in Fields :
               declare_func_import(i, m, f) THEN {2, 3}
    ELSE IF \E i \in Indices : declare_func_type(i) THEN {2}
    ELSE IF \E t \in TableDescs : declare_table(t) THEN {4}
    ELSE IF \E d \in MemoryDescs : declare_memory(d) THEN {5}
    ELSE IF \E g \in GlobalDescs : declare_global(g) THEN {6}
    ELSE IF \E e \in ElementSegments :
               declare_table_elements(e.table_index, e.base, e.offset, e.elements)
         THEN {7}
    ELSE IF \E sp \in Spans : define_function_body(sp, sp.start) THEN {8}
    ELSE IF \E d \in DataSegments :
               declare_data_initialization(d.memory_index, d.base, d.offset, d.data)
         THEN {9}
    ELSE {}

\* C19: over every callback each of the nine sequences keeps its entries, in
\* their order, as a prefix; a declare or define callback that returns Ok(())
\* adds exactly one entry to its own sequence (declare_func_import to functions
\* and imported_funcs) and none to another; every other callback adds none.
C19_AppendOnly ==
    [][pc = "running" =>
          /\ \A k \in 1..9 : IsPrefix(Sequences9[k], Sequences9'[k])
          /\ \A k \in 1..9 :
                Len(Sequences9'[k]) =
                    Len(Sequences9[k])
                        + (IF pc' = "running" /\ k \in OwnSequences THEN 1 ELSE 0)]_vars

\* C19 happens: two globals and a local function are held
C19_Witness ==
    /\ pc = "running"
    /\ Len(globals) = 2
    /\ Len(functions) = 1

====
